---- MODULE Spec2Model ----
(***************************************************************************)
(* Model of the SITRAD framed-protocol reader of CONV32.py                 *)
(* (class CONV32Reader): the frame codec (create_command, parse_response), *)
(* the probe primitive read_device with its response-reading loop, the     *)
(* transport (connect), the configuration / address scan scan_devices,     *)
(* test_connection and the monitor loop monitor_temperatures; and of the   *)
(* address scan escanear_dispositivos and the register presentation        *)
(* leer_registros_dispositivo of the two Modbus scanners, escaner.py and   *)
(* escaner_alternativo.py.                                                 *)
(*                                                                         *)
(* Bytes are integers 0..255.  A reading is the integer number of tenths   *)
(* of a degree (temp_raw / 10.0 has exactly one decimal digit), None is    *)
(* Python's None, and an exception that leaves a function is a record      *)
(* [exc |-> <class name>].                                                 *)
(***************************************************************************)
EXTENDS Integers, Sequences, FiniteSets, TLC

VARIABLES
    \* ---- frame codec called directly (pure functions)
    cpc,            \* "create" | "parse" | "done"
    cin_addr,       \* argument of create_command
    cin_resp,       \* argument of parse_response
    cout,           \* what the call returned (or raised)
    \* ---- leer_registros_dispositivo of the two Modbus scanners
    script,         \* "none" | "escaner" | "escaner_alternativo"
    reg_pc,         \* "off" | "holding" | "input" | "done"
    reg_i,          \* index of the register being presented
    shown,          \* the last register line printed
    \* ---- escanear_dispositivos of the two Modbus scanners
    mb_pc,          \* "off" | "start" | "scan" | "close" | "returned" | "interrupted"
    direccion,      \* the loop variable of `for direccion in range(1, 248)`
    encontrados,    \* dispositivos_encontrados of escanear_dispositivos
    respondieron,   \* addresses whose register read gave a result without error
    n_sondeos,      \* register reads made by the scan loop so far
    ult_res,        \* how the last of them ended
    cliente,        \* escaner.py's client: "new" | "connected" | "failed" | "closed"
    n_close,        \* calls of cliente.close()
    \* ---- transport and one read_device call
    ser,            \* self.ser: "none" | "open" | "closed"
    inbuf,          \* bytes waiting in the transport's input buffer
    wire,           \* bytes the device has still to put on the bus
    rpc,            \* position inside read_device
    raddr,          \* read_device's address argument
    response,       \* the accumulator `response`
    elapsed,        \* 50 ms polls slept since `timeout` was set
    result,         \* value returned by read_device
    io,             \* transport calls made by the current read_device call
    written,        \* bytes of the last ser.write
    \* ---- scan_devices
    pc,             \* position of the caller / of scan_devices
    serial_configs, \* self.serial_configs (Unset: the attribute does not exist)
    serial_config,  \* self.serial_config (0: the SITRAD default of __init__)
    ser_cfg,        \* configuration self.ser was opened with
    retry_count,
    cfg_i,          \* index i of the configuration trial loop
    addr,
    intento,
    dispositivos_encontrados,
    probed,         \* <<cfg_i, addr>> of the last probe of this scan
    nprobes,        \* command writes made so far for `probed`
    answer,         \* what the device sent back to the last command
    arrived,        \* how many of those bytes arrived within the budget
    iofail,         \* the transport call of the last probe that raised
    \* ---- transports, callers of read_device, monitor_temperatures
    n_open,         \* serial.Serial objects that are open
    exchanges,      \* commands written whose read_device call has not returned
    devices,        \* monitor_temperatures' argument
    errors_count,
    dev_i,          \* position of `for addr, config in devices`
    tc_ret          \* what test_connection returned: "none" | "true" | "false"

reg_vars   == <<script, reg_pc, reg_i, shown>>
mb_vars    == <<mb_pc, direccion, encontrados, respondieron, n_sondeos, ult_res,
                cliente, n_close>>
codec_vars == <<cpc, cin_addr, cin_resp, cout, reg_vars, mb_vars>>
read_vars  == <<ser, inbuf, wire, rpc, raddr, response, elapsed, result, io, written>>
scan_vars  == <<pc, serial_configs, serial_config, ser_cfg, retry_count, cfg_i,
                addr, intento, dispositivos_encontrados, probed, nprobes,
                answer, arrived, iofail>>
scan_vars_but_pc ==
    <<serial_configs, serial_config, ser_cfg, retry_count, cfg_i, addr, intento,
      dispositivos_encontrados, probed, nprobes, answer, arrived, iofail>>
mon_vars   == <<devices, errors_count, dev_i, tc_ret>>
vars == <<codec_vars, read_vars, scan_vars, n_open, exchanges, mon_vars>>

----------------------------------------------------------------------------
(* Program constants *)

STX == 2
ETX == 3
CMD_READ == 114            \* 0x72
MinAddr == 1
MaxAddr == 32
MinResponseLen == 5        \* len(response) >= 5
PollBudget == 20           \* 1.0 s of time.sleep(0.05) polls
ByteMax == 255

\* Python's None, and a float reading temp_raw / 10.0 kept as its tenths
None == [none |-> TRUE]
Reading(tenths) == [tenths |-> tenths]
\* an attribute that was never assigned: reading it raises AttributeError
Unset == [exists |-> FALSE, list |-> <<>>]
Assigned(v) == [exists |-> TRUE, list |-> v]
Byte == 0..ByteMax

(* Bounds of the model *)

MaxTempIn == 7             \* temperature bytes 0..MaxTempIn (plus 0x0F and the extremes)
MaxStatus == 2             \* status bytes 0..MaxStatus
MaxRetry == 2              \* retry_count in 0..MaxRetry
MaxConfigs == 2            \* serial_configs lists of 0..MaxConfigs candidates
MaxSleepTicks == 2         \* a time.sleep(0.05) lasts 1..MaxSleepTicks polls' worth

----------------------------------------------------------------------------
(* Python's integer operators on bytes *)

RECURSIVE Xor(_, _)
Xor(a, b) ==
    IF a = 0 THEN b
    ELSE IF b = 0 THEN a
    ELSE (((a % 2) + (b % 2)) % 2) + (2 * Xor(a \div 2, b \div 2))

RECURSIVE Pow2(_)
Pow2(k) == IF k = 0 THEN 1 ELSE 2 * Pow2(k - 1)

\* b with bit k (0..7) inverted
FlipBit(b, k) == Xor(b, Pow2(k))

\* response[-1], response[-2]
Last(s) == s[Len(s)]
Last2(s) == s[Len(s) - 1]

----------------------------------------------------------------------------
(* Frame codec *)

DeviceError == [exc |-> "DeviceError"]

\* address ^ cmd for every byte address (tabulated once)
CommandChecksum == [a \in Byte |-> Xor(a, CMD_READ)]

\* faulty variant: a checksum over the command byte alone
create_command_noaddr(address) ==
    IF address \in Byte
    THEN <<STX, address, CMD_READ, CMD_READ>>
    ELSE DeviceError

\* faulty variant: a range check inside the encoder
create_command_checked(address) ==
    IF address \in MinAddr..MaxAddr
    THEN <<STX, address, CMD_READ, CommandChecksum[address]>>
    ELSE DeviceError

\* bytes([...]) raises ValueError unless every element is in range(256); the
\* handler turns it into DeviceError.  No range check on the address.
create_command(address) ==
    IF address \in Byte
    THEN <<STX, address, CMD_READ, CommandChecksum[address]>>
    ELSE DeviceError

\* faulty variant: the checksum comparison left out
parse_response_nochecksum(resp) ==
    IF Len(resp) = 0 THEN None
    ELSE IF resp[1] # STX \/ Last(resp) # ETX THEN None
    ELSE IF Len(resp) < 3 THEN None
    ELSE IF resp[3] # 0 THEN None
    ELSE IF Len(resp) < 4 THEN None
    ELSE Reading(resp[4])

\* faulty variant: the temperature byte read as a signed byte
parse_response_signed(resp) ==
    IF Len(resp) = 0 THEN None
    ELSE IF resp[1] # STX \/ Last(resp) # ETX THEN None
    ELSE IF Len(resp) < 3 THEN None
    ELSE IF resp[3] # 0 THEN None
    ELSE IF Len(resp) < 4 THEN None
    ELSE IF Last2(resp) # Xor(Xor(resp[2], resp[3]), resp[4]) THEN None
    ELSE IF resp[4] > 127 THEN Reading(resp[4] - 256) ELSE Reading(resp[4])

\* faulty variant: a decoder with memory, which rejects the frame it has just
\* decoded
parse_response_once(resp) ==
    IF cpc = "parsed" THEN None
    ELSE IF Len(resp) = 0 THEN None
    ELSE IF resp[1] # STX \/ Last(resp) # ETX THEN None
    ELSE IF Len(resp) < 3 THEN None
    ELSE IF resp[3] # 0 THEN None
    ELSE IF Len(resp) < 4 THEN None
    ELSE IF Last2(resp) # Xor(Xor(resp[2], resp[3]), resp[4]) THEN None
    ELSE Reading(resp[4])

\* An index past the end raises IndexError, which the handler turns into None.
\* The value returned is temp_raw / 10.0, kept here in tenths of a degree.
parse_response(resp) ==
    IF Len(resp) = 0 THEN None                                   \* response[0]
    ELSE IF resp[1] # STX \/ Last(resp) # ETX THEN None
    ELSE IF Len(resp) < 3 THEN None                              \* response[2]
    ELSE IF resp[3] # 0 THEN None                                \* status
    ELSE IF Len(resp) < 4 THEN None                              \* response[3]
    ELSE IF Last2(resp) # Xor(Xor(resp[2], resp[3]), resp[4]) THEN None
    ELSE Reading(resp[4])

----------------------------------------------------------------------------
(* The codec called directly, on inputs drawn from bounded sets *)

\* the checksum a device puts in its answer
Checksum(a, s, t) == Xor(Xor(a, s), t)

Frame(a, s, t, c) == <<STX, a, s, t, c, ETX>>

AddrInputs == ((0 - 1)..(MaxAddr + 2)) \cup {ByteMax, ByteMax + 1}
RespAddrs == 0..(MaxAddr + 1)
TempInputs == (0..MaxTempIn) \cup {15, 128, ByteMax}
StatusInputs == 0..MaxStatus
ChecksumInputs(a, s, t) ==
    {Checksum(a, s, t), 26} \cup {FlipBit(Checksum(a, s, t), k) : k \in 0..7}

FrameInputs == RespAddrs \X StatusInputs \X TempInputs
GoodFrameInputs == RespAddrs \X TempInputs

CodecResponses ==
    UNION {{Frame(x[1], x[2], x[3], c) : c \in ChecksumInputs(x[1], x[2], x[3])} :
            x \in FrameInputs}
    \cup UNION {{SubSeq(Frame(x[1], 0, x[2], Checksum(x[1], 0, x[2])), 1, n) : n \in 0..5} :
            x \in GoodFrameInputs}
    \cup {<<STX, x[1], x[2], x[3], ETX>> : x \in FrameInputs}
    \cup UNION {{<<y[1], x[1], 0, x[2], Checksum(x[1], 0, x[2]), y[2]>> :
                    y \in {0, STX, ETX} \X {0, STX, ETX}} : x \in GoodFrameInputs}
    \cup {<<STX, x[1], 0, x[2], 0, Checksum(x[1], 0, x[2]), ETX>> : x \in GoodFrameInputs}

InitRead ==
    /\ ser = "none" /\ inbuf = <<>> /\ wire = <<>> /\ rpc = "idle"
    /\ raddr = 0 /\ response = <<>> /\ elapsed = 0 /\ result = None
    /\ io = [reset |-> 0, write |-> 0, read |-> 0]
    /\ written = <<>>
    /\ n_open = 0 /\ exchanges = 0

InitScan ==
    /\ pc = "idle" /\ serial_configs = Unset /\ serial_config = 0
    /\ ser_cfg = 0 /\ retry_count = 0 /\ cfg_i = 0 /\ addr = 0 /\ intento = 0
    /\ dispositivos_encontrados = <<>> /\ probed = <<>> /\ nprobes = 0
    /\ answer = <<>> /\ arrived = 0 /\ iofail = "none"
    /\ devices = <<>> /\ errors_count = 0 /\ dev_i = 0 /\ tc_ret = "none"

NoLine == [kind |-> "none", v |-> 0]

InitMbIdle ==
    /\ mb_pc = "off" /\ direccion = 0 /\ encontrados = <<>> /\ respondieron = {}
    /\ n_sondeos = 0 /\ ult_res = "none" /\ cliente = "new" /\ n_close = 0

InitRegIdle ==
    script = "none" /\ reg_pc = "off" /\ reg_i = 0 /\ shown = NoLine

InitCodecIdle ==
    /\ cpc = "done" /\ cin_addr = 0 /\ cin_resp = <<>> /\ cout = None
    /\ InitRegIdle
    /\ InitMbIdle

InitCodec ==
    /\ \/ cpc = "create" /\ cin_addr \in AddrInputs /\ cin_resp = <<>>
       \/ cpc = "parse" /\ cin_addr = 0 /\ cin_resp \in CodecResponses
    /\ cout = None
    /\ InitRegIdle
    /\ InitMbIdle
    /\ InitRead
    /\ InitScan

CallCreate ==
    /\ cpc = "create"
    /\ cout' = create_command(cin_addr)
    /\ cpc' = "created"
    /\ UNCHANGED <<cin_addr, cin_resp, reg_vars, mb_vars, read_vars, scan_vars>>
    /\ UNCHANGED <<n_open, exchanges, mon_vars>>

CallParse ==
    /\ cpc = "parse"
    /\ cout' = parse_response(cin_resp)
    /\ cpc' = "parsed"
    /\ UNCHANGED <<cin_addr, cin_resp, reg_vars, mb_vars, read_vars, scan_vars>>
    /\ UNCHANGED <<n_open, exchanges, mon_vars>>

\* parse_response called a second time on the same bytes
CallParseAgain ==
    /\ cpc = "parsed"
    /\ cout' = parse_response(cin_resp)
    /\ cpc' = "parsed_again"
    /\ UNCHANGED <<cin_addr, cin_resp, reg_vars, mb_vars, read_vars, scan_vars>>
    /\ UNCHANGED <<n_open, exchanges, mon_vars>>

NextCodec == CallCreate \/ CallParse \/ CallParseAgain

SpecCodec == InitCodec /\ [][NextCodec]_vars

(***************************************************************************)
(* leer_registros_dispositivo of escaner.py (pymodbus) and of              *)
(* escaner_alternativo.py (minimalmodbus): ten holding registers are       *)
(* printed as they are, then each input register is printed either as a    *)
(* temperature valor/10 with one decimal or as the plain number.  Both     *)
(* libraries hand out registers as unsigned 16-bit words.                  *)
(***************************************************************************)
NumRegs == 10              \* count=10, range(10)
MaxWord == 65535
MaxReg == 152              \* register words 0..MaxReg (plus those around 1500)
RegValues == (0..MaxReg) \cup {1499, 1500, 1501, MaxWord}
Scripts == {"escaner", "escaner_alternativo"}

\* f"{valor/10:.1f}°C": the temperature printed, in tenths of a degree
TempLine(valor) == [kind |-> "temp", v |-> valor]
RawLine(valor) == [kind |-> "raw", v |-> valor]

\* faulty variant: every input register is printed as a temperature
presentar_norange(s, valor) == TempLine(valor)

presentar(s, valor) ==
    IF s = "escaner"
    THEN IF (0 - 500) <= valor /\ valor <= 1500
         THEN TempLine(valor) ELSE RawLine(valor)
    ELSE IF (0 - 50) <= valor /\ valor <= 150
         THEN TempLine(valor) ELSE RawLine(valor)

reg_rest == <<cpc, cin_addr, cin_resp, cout, mb_vars, read_vars, scan_vars, n_open,
              exchanges, mon_vars>>

InitRange ==
    /\ \/ /\ cpc = "parse" /\ cin_resp \in CodecResponses
          /\ InitRegIdle
       \/ /\ cpc = "done" /\ cin_resp = <<>>
          /\ script \in Scripts /\ reg_pc = "holding" /\ reg_i = 0
          /\ shown = NoLine
    /\ cin_addr = 0
    /\ cout = None
    /\ InitMbIdle
    /\ InitRead
    /\ InitScan

\* one holding register printed; after the last one the input registers follow
ShowHolding ==
    /\ reg_pc = "holding"
    /\ \E valor \in RegValues : shown' = RawLine(valor)
    /\ reg_i' = (IF reg_i + 1 = NumRegs THEN 0 ELSE reg_i + 1)
    /\ reg_pc' = (IF reg_i + 1 = NumRegs THEN "input" ELSE "holding")
    /\ UNCHANGED <<script, reg_rest>>

\* the holding registers cannot be read: nothing is printed for them.
\* escaner: the block read returns an error (the input registers follow) or
\* raises ModbusException (the function ends); escaner_alternativo:
\* `except: continue` skips this register
HoldingError ==
    /\ reg_pc = "holding"
    /\ \/ /\ script = "escaner" /\ reg_i = 0
          /\ \/ reg_i' = 0 /\ reg_pc' = "input"
             \/ reg_i' = NumRegs /\ reg_pc' = "done"
       \/ /\ script = "escaner_alternativo"
          /\ reg_i' = (IF reg_i + 1 = NumRegs THEN 0 ELSE reg_i + 1)
          /\ reg_pc' = (IF reg_i + 1 = NumRegs THEN "input" ELSE "holding")
    /\ UNCHANGED <<script, shown, reg_rest>>

\* one input register printed
ShowInput ==
    /\ reg_pc = "input"
    /\ \E valor \in RegValues : shown' = presentar(script, valor)
    /\ reg_i' = reg_i + 1
    /\ reg_pc' = (IF reg_i + 1 = NumRegs THEN "done" ELSE "input")
    /\ UNCHANGED <<script, reg_rest>>

\* the input registers cannot be read (escaner: the whole block, the function
\* ends; escaner_alternativo: `except: continue` skips this register)
InputError ==
    /\ reg_pc = "input"
    /\ script = "escaner" => reg_i = 0
    /\ reg_i' = (IF script = "escaner" THEN NumRegs ELSE reg_i + 1)
    /\ reg_pc' = (IF script = "escaner" \/ reg_i + 1 = NumRegs
                  THEN "done" ELSE "input")
    /\ UNCHANGED <<script, shown, reg_rest>>

NextRange == CallParse \/ ShowHolding \/ HoldingError \/ ShowInput \/ InputError

SpecRange == InitRange /\ [][NextRange]_vars

(***************************************************************************)
(* escanear_dispositivos of escaner.py (one pymodbus client for the whole  *)
(* scan) and of escaner_alternativo.py (one minimalmodbus Instrument per   *)
(* address): every slave address 1..247 gets one read of holding register  *)
(* 0, and the addresses whose read succeeds are collected.  The registers  *)
(* of a found device are then printed by leer_registros_dispositivo, which *)
(* handles its own exceptions and changes nothing of the scan.             *)
(***************************************************************************)
FirstSlave == 1
LastSlave == 247           \* range(1, 248)

\* slave addresses with a device that can answer
MbAttached == {1, 100, 247}

\* how one register read can end.  escaner.py: a result, an error result (or
\* none), ModbusException, any other Exception; escaner_alternativo.py: the
\* value, or an exception of any kind
ReadOutcomes(s, d) ==
    (IF d \in MbAttached THEN {"ok"} ELSE {})
        \cup (IF s = "escaner" THEN {"error_result", "ModbusException", "Exception"}
              ELSE {"raised"})

mb_rest == <<cpc, cin_addr, cin_resp, cout, reg_pc, reg_i, shown, read_vars,
             scan_vars, n_open, exchanges, mon_vars>>

InitModbus ==
    /\ cpc = "done" /\ cin_addr = 0 /\ cin_resp = <<>> /\ cout = None
    /\ script \in Scripts /\ reg_pc = "off" /\ reg_i = 0 /\ shown = NoLine
    /\ mb_pc = "start" /\ direccion = 0 /\ encontrados = <<>> /\ respondieron = {}
    /\ n_sondeos = 0 /\ ult_res = "none" /\ cliente = "new" /\ n_close = 0
    /\ InitRead
    /\ InitScan

\* escaner.py lines 87-108: the client is made and connected; when connect()
\* returns False the function returns [] at once.  escaner_alternativo.py
\* lines 49-52: the empty list, no client
MbStart ==
    /\ mb_pc = "start"
    /\ encontrados' = <<>>
    /\ IF script = "escaner"
       THEN \E ok \in BOOLEAN :
              IF ok THEN cliente' = "connected" /\ mb_pc' = "scan" /\ direccion' = FirstSlave
              ELSE cliente' = "failed" /\ mb_pc' = "returned" /\ UNCHANGED direccion
       ELSE mb_pc' = "scan" /\ direccion' = FirstSlave /\ UNCHANGED cliente
    /\ UNCHANGED <<script, respondieron, n_sondeos, ult_res, n_close, mb_rest>>

\* faulty variant: an exception other than ModbusException ends the scan
MbProbe_abort ==
    /\ mb_pc = "scan"
    /\ \E o \in ReadOutcomes(script, direccion) :
        /\ ult_res' = o
        /\ n_sondeos' = n_sondeos + 1
        /\ encontrados' = (IF o = "ok" THEN Append(encontrados, direccion)
                           ELSE encontrados)
        /\ respondieron' = (IF o = "ok" THEN respondieron \cup {direccion}
                            ELSE respondieron)
        /\ IF o \in {"Exception", "raised"}
           THEN mb_pc' = "returned" /\ UNCHANGED direccion
           ELSE IF direccion < LastSlave
           THEN direccion' = direccion + 1 /\ UNCHANGED mb_pc
           ELSE /\ UNCHANGED direccion
                /\ mb_pc' = (IF script = "escaner" THEN "close" ELSE "returned")
    /\ UNCHANGED <<script, cliente, n_close, mb_rest>>

\* escaner.py lines 116-140, escaner_alternativo.py lines 55-80: one pass of
\* the loop: the register read of this address; a result without error puts
\* the address on the list, anything else is swallowed; then the next address
MbProbe ==
    /\ mb_pc = "scan"
    /\ \E o \in ReadOutcomes(script, direccion) :
        /\ ult_res' = o
        /\ n_sondeos' = n_sondeos + 1
        /\ encontrados' = (IF o = "ok" THEN Append(encontrados, direccion)
                           ELSE encontrados)
        /\ respondieron' = (IF o = "ok" THEN respondieron \cup {direccion}
                            ELSE respondieron)
    /\ IF direccion < LastSlave
       THEN direccion' = direccion + 1 /\ UNCHANGED mb_pc
       ELSE /\ UNCHANGED direccion
            /\ mb_pc' = (IF script = "escaner" THEN "close" ELSE "returned")
    /\ UNCHANGED <<script, cliente, n_close, mb_rest>>

\* faulty variant: the list is returned with the client left open
MbClose_noclose ==
    /\ mb_pc = "close"
    /\ mb_pc' = "returned"
    /\ UNCHANGED <<script, direccion, encontrados, respondieron, n_sondeos, ult_res,
                   cliente, n_close, mb_rest>>

\* escaner.py lines 142-143: cliente.close() and the return
MbClose ==
    /\ mb_pc = "close"
    /\ cliente' = "closed"
    /\ n_close' = n_close + 1
    /\ mb_pc' = "returned"
    /\ UNCHANGED <<script, direccion, encontrados, respondieron, n_sondeos, ult_res,
                   mb_rest>>

\* the operator presses Ctrl-C during the scan: KeyboardInterrupt is not an
\* Exception and leaves escanear_dispositivos with the scan unfinished
MbInterrupt ==
    /\ mb_pc = "scan"
    /\ mb_pc' = "interrupted"
    /\ UNCHANGED <<script, direccion, encontrados, respondieron, n_sondeos, ult_res,
                   cliente, n_close, mb_rest>>

NextModbus == MbStart \/ MbProbe \/ MbClose \/ MbInterrupt

SpecModbus == InitModbus /\ [][NextModbus]_vars

----------------------------------------------------------------------------
(* read_device, one statement group per step, against a device on the bus *)

\* verify_connection: passes iff self.ser exists and is open
verify_connection(s) == s = "open"

\* faulty variant: the lower limit off by one
ValidAddress_zero(a) == a \in 0..MaxAddr

\* 1 <= address <= 32
ValidAddress(a) == a \in MinAddr..MaxAddr

\* lines 126-129: the accumulated bytes go to the decoder when there are >= 5
Deliver(resp) ==
    IF Len(resp) >= MinResponseLen THEN parse_response(resp) ELSE None

\* Addresses with a controller attached; every other address stays silent.
Attached == {2, 3, 32}

\* What the bus may carry back after a command for address a: every kind of
\* answer at address 3, the well-formed ones at 2 and 32.
AnswersOf ==
    [a \in Attached |->
        IF a = 3
        THEN { <<>>,
               Frame(a, 0, 15, Checksum(a, 0, 15)),       \* complete and correct
               Frame(a, 0, ETX, Checksum(a, 0, ETX)),     \* temperature byte 0x03
               Frame(a, 0, 15, FlipBit(Checksum(a, 0, 15), 4)),
               Frame(a, 1, 15, Checksum(a, 1, 15)),       \* status 1
               <<STX, a, 0, 15, Checksum(a, 0, 15)>>,     \* never sends ETX
               <<STX, 0, 0, 15, ETX>>,                    \* five bytes
               <<0, a, 0, 15, Checksum(a, 0, 15), ETX>> } \* no STX
        ELSE { <<>>,
               Frame(a, 0, 15, Checksum(a, 0, 15)),
               <<STX, a, 0, 15, Checksum(a, 0, 15)>> }]

Answers(a) == IF a \in Attached THEN AnswersOf[a] ELSE { <<>> }

\* The controller at address 3 answers under every candidate configuration
\* (candidates may differ in the timeout only); the others answer only at
\* the SITRAD default (0) and at the first candidate.
Speaks(c, a) == a = 3 \/ c \in {0, 1}

\* What the bus may carry back when the transport was opened with c.
AnswersUnder(c, a) == IF Speaks(c, a) THEN Answers(a) ELSE { <<>> }

ReadAddrs == (0 - 1)..(MaxAddr + 1)
NoIO == [reset |-> 0, write |-> 0, read |-> 0]

InitReadCall ==
    /\ InitCodecIdle
    /\ InitScan
    /\ ser \in {"none", "open", "closed"}
    /\ inbuf \in {<<>>, <<7>>}
    /\ wire = <<>>
    /\ rpc = "call"
    /\ raddr \in ReadAddrs
    /\ response = <<>> /\ elapsed = 0 /\ result = None
    /\ io = NoIO /\ written = <<>>
    /\ n_open = (IF ser = "open" THEN 1 ELSE 0) /\ exchanges = 0

\* faulty variant: the command is written without clearing the input buffer
RD_Enter_noclear ==
    /\ rpc = "call"
    /\ IF ~verify_connection(ser) \/ ~ValidAddress(raddr)
       THEN rpc' = "done" /\ result' = None
       ELSE rpc' = "write" /\ UNCHANGED result
    /\ UNCHANGED <<inbuf, io>>
    /\ UNCHANGED <<ser, wire, raddr, response, elapsed, written, codec_vars, scan_vars>>
    /\ UNCHANGED <<n_open, exchanges, mon_vars>>

\* lines 95-101: verify_connection, the range check, reset_input_buffer
RD_Enter ==
    /\ rpc = "call"
    /\ IF ~verify_connection(ser) \/ ~ValidAddress(raddr)
       THEN /\ rpc' = "done" /\ result' = None
            /\ UNCHANGED <<inbuf, io>>
       ELSE /\ rpc' = "write"
            /\ inbuf' = <<>>
            /\ io' = [io EXCEPT !.reset = @ + 1]
            /\ UNCHANGED result
    /\ UNCHANGED <<ser, wire, raddr, response, elapsed, written, codec_vars, scan_vars>>
    /\ UNCHANGED <<n_open, exchanges, mon_vars>>

\* lines 104-112: create_command, ser.write, the 0.5 s sleep, the empty accumulator
RD_Write ==
    /\ rpc = "write"
    /\ LET comando == create_command(raddr) IN
       IF comando = DeviceError
       THEN /\ rpc' = "done" /\ result' = None
            /\ UNCHANGED <<written, io, wire, response, elapsed>>
       ELSE /\ written' = comando
            /\ io' = [io EXCEPT !.write = @ + 1]
            /\ \E ans \in Answers(raddr) : wire' = wire \o ans
            /\ response' = <<>>
            /\ elapsed' = 0
            /\ rpc' = "loop"
            /\ UNCHANGED result
    /\ UNCHANGED <<ser, inbuf, raddr, codec_vars, scan_vars>>
    /\ exchanges' = IF create_command(raddr) = DeviceError THEN exchanges
                     ELSE exchanges + 1
    /\ UNCHANGED <<n_open, mon_vars>>

\* faulty variant: the loop body without the sleep that lets the clock advance
RD_Poll_nosleep ==
    /\ rpc = "loop"
    /\ elapsed < PollBudget
    /\ io' = [io EXCEPT !.read = @ + (IF inbuf # <<>> THEN 1 ELSE 0)]
    /\ IF inbuf # <<>>
       THEN /\ response' = Append(response, Head(inbuf))
            /\ inbuf' = Tail(inbuf)
            /\ rpc' = IF Head(inbuf) = ETX THEN "deliver" ELSE "loop"
       ELSE UNCHANGED <<response, inbuf, rpc>>
    /\ UNCHANGED <<elapsed, ser, wire, raddr, result, written, codec_vars, scan_vars>>
    /\ UNCHANGED <<n_open, exchanges, mon_vars>>

\* faulty variant: the loop goes on accumulating after a 0x03
RD_Poll_nobreak ==
    /\ rpc = "loop"
    /\ elapsed < PollBudget
    /\ io' = [io EXCEPT !.read = @ + (IF inbuf # <<>> THEN 1 ELSE 0)]
    /\ IF inbuf # <<>>
       THEN response' = Append(response, Head(inbuf)) /\ inbuf' = Tail(inbuf)
       ELSE UNCHANGED <<response, inbuf>>
    /\ \E d \in 1..MaxSleepTicks : elapsed' = elapsed + d
    /\ UNCHANGED <<rpc, ser, wire, raddr, result, written, codec_vars, scan_vars>>
    /\ UNCHANGED <<n_open, exchanges, mon_vars>>

\* lines 114-121: one iteration of `while time.time() < timeout`
RD_Poll ==
    /\ rpc = "loop"
    /\ elapsed < PollBudget
    /\ io' = [io EXCEPT !.read = @ + (IF inbuf # <<>> THEN 1 ELSE 0)]
    /\ IF inbuf # <<>>
       THEN /\ response' = Append(response, Head(inbuf))
            /\ inbuf' = Tail(inbuf)
            /\ IF Head(inbuf) = ETX
               THEN rpc' = "deliver" /\ UNCHANGED elapsed            \* break
               ELSE rpc' = "loop" /\ \E d \in 1..MaxSleepTicks : elapsed' = elapsed + d
       ELSE /\ UNCHANGED <<response, inbuf, rpc>>
            /\ \E d \in 1..MaxSleepTicks : elapsed' = elapsed + d
    /\ UNCHANGED <<ser, wire, raddr, result, written, codec_vars, scan_vars>>
    /\ UNCHANGED <<n_open, exchanges, mon_vars>>

\* lines 114, 123-129: the loop is left (timeout or break) and the bytes decoded
RD_Deliver ==
    /\ \/ rpc = "deliver"
       \/ rpc = "loop" /\ elapsed >= PollBudget
    /\ result' = Deliver(response)
    /\ rpc' = "done"
    /\ UNCHANGED <<ser, inbuf, wire, raddr, response, elapsed, io, written,
                   codec_vars, scan_vars>>
    /\ exchanges' = exchanges - 1
    /\ UNCHANGED <<n_open, mon_vars>>

\* faulty variant: the exception of the transport call leaves read_device
RD_IOError_raise ==
    /\ \/ rpc = "call" /\ verify_connection(ser) /\ ValidAddress(raddr)
       \/ rpc \in {"write", "loop"}
    /\ result' = [exc |-> "SerialException"]
    /\ rpc' = "failed"
    /\ UNCHANGED <<ser, inbuf, wire, raddr, response, elapsed, io, written,
                   codec_vars, scan_vars>>
    /\ exchanges' = IF rpc = "loop" THEN exchanges - 1 ELSE exchanges
    /\ UNCHANGED <<n_open, mon_vars>>

\* lines 131-133: a transport call raises (reset, write, in_waiting, read)
RD_IOError ==
    /\ \/ rpc = "call" /\ verify_connection(ser) /\ ValidAddress(raddr)
       \/ rpc \in {"write", "loop"}
    /\ result' = None
    /\ rpc' = "failed"
    /\ UNCHANGED <<ser, inbuf, wire, raddr, response, elapsed, io, written,
                   codec_vars, scan_vars>>
    /\ exchanges' = IF rpc = "loop" THEN exchanges - 1 ELSE exchanges
    /\ UNCHANGED <<n_open, mon_vars>>

\* the device puts its next byte on the bus; it lands in the input buffer of
\* the open port, wherever read_device is
Arrive ==
    /\ ser = "open"
    /\ rpc \in {"call", "write", "loop"}
    /\ wire # <<>>
    /\ inbuf' = Append(inbuf, Head(wire))
    /\ wire' = Tail(wire)
    /\ UNCHANGED <<ser, rpc, raddr, response, elapsed, result, io, written,
                   codec_vars, scan_vars>>
    /\ UNCHANGED <<n_open, exchanges, mon_vars>>

ReadStep == RD_Enter \/ RD_Write \/ RD_Poll \/ RD_Deliver
NextRead == ReadStep \/ RD_IOError \/ Arrive

SpecRead == InitReadCall /\ [][NextRead]_vars

\* The interpreter keeps executing read_device: a sleep always returns.
SpecReadFair == SpecRead /\ WF_vars(ReadStep)

----------------------------------------------------------------------------
(* Successive probes: a caller (the address loop of scan_devices, of        *)
(* test_connection, of the monitor) calls read_device for one address after *)
(* the other, each call running step by step                                *)

SeqLastAddr == 3

InitSeq ==
    /\ InitCodecIdle
    /\ InitScan
    /\ ser \in {"none", "open", "closed"}
    /\ inbuf \in {<<>>, <<7>>} /\ wire = <<>>
    /\ rpc = "call" /\ raddr = MinAddr
    /\ response = <<>> /\ elapsed = 0 /\ result = None
    /\ io = NoIO /\ written = <<>>
    /\ n_open = (IF ser = "open" THEN 1 ELSE 0) /\ exchanges = 0

\* faulty variant: the next probe is started while the previous one is still
\* in its reading loop
RD_Again_reentrant ==
    /\ rpc \in {"done", "failed", "loop"}
    /\ raddr < SeqLastAddr
    /\ raddr' = raddr + 1
    /\ rpc' = "call"
    /\ response' = <<>> /\ elapsed' = 0 /\ result' = None /\ io' = NoIO
    /\ UNCHANGED <<ser, inbuf, wire, written, codec_vars, scan_vars, n_open,
                   exchanges, mon_vars>>

\* lines 281-289, 219-221, 322-324: read_device has returned and the caller's
\* loop calls it for the next address
RD_Again ==
    /\ rpc \in {"done", "failed"}
    /\ raddr < SeqLastAddr
    /\ raddr' = raddr + 1
    /\ rpc' = "call"
    /\ response' = <<>> /\ elapsed' = 0 /\ result' = None /\ io' = NoIO
    /\ UNCHANGED <<ser, inbuf, wire, written, codec_vars, scan_vars, n_open,
                   exchanges, mon_vars>>

NextSeq == ReadStep \/ RD_IOError \/ Arrive \/ RD_Again

SpecSeq == InitSeq /\ [][NextSeq]_vars

----------------------------------------------------------------------------
(* read_device as one call: what it returns and does for given bus input *)

\* lines 114-121 over the bytes `avail` that reach the input buffer within the
\* budget, one ser.read() per poll
RECURSIVE Accumulate(_, _, _)
Accumulate(resp, avail, t) ==
    IF t >= PollBudget \/ avail = <<>>
    THEN [response |-> resp, left |-> avail]
    ELSE IF Head(avail) = ETX
    THEN [response |-> Append(resp, ETX), left |-> Tail(avail)]
    ELSE Accumulate(Append(resp, Head(avail)), Tail(avail), t + 1)

IOFailures == {"none", "in_waiting", "reset", "write", "poll"}

\* lines 92-133.  s: self.ser, a: the address, avail: the bytes arriving in
\* time, f: the transport call that raises (if any)
read_device(s, a, avail, f) ==
    IF ~verify_connection(s) \/ ~ValidAddress(a)
    THEN [result |-> None, response |-> <<>>, io |-> NoIO, cmd |-> <<>>, left |-> avail]
    ELSE IF f = "reset"
    THEN [result |-> None, response |-> <<>>, io |-> NoIO, cmd |-> <<>>, left |-> avail]
    ELSE IF create_command(a) = DeviceError \/ f = "write"
    THEN [result |-> None, response |-> <<>>,
          io |-> [NoIO EXCEPT !.reset = 1], cmd |-> <<>>, left |-> avail]
    ELSE LET acc == Accumulate(<<>>, avail, 0) IN
         [result |-> IF f = "poll" THEN None ELSE Deliver(acc.response),
          response |-> acc.response,
          io |-> [reset |-> 1, write |-> 1, read |-> Len(acc.response)],
          cmd |-> create_command(a),
          left |-> acc.left]

----------------------------------------------------------------------------
(* The transport: self.ser, the configuration it was opened with, and the *)
(* number of serial.Serial objects open                                    *)

Transport == [ser |-> ser, ser_cfg |-> ser_cfg, n_open |-> n_open]

\* `if self.ser and self.ser.is_open: self.ser.close()`
close_if_open(t) ==
    IF t.ser = "open" THEN [t EXCEPT !.ser = "closed", !.n_open = @ - 1] ELSE t

\* how a call of connect goes: the port opens, the port is not in the list of
\* available ports (line 71), or serial.Serial raises (line 78)
ConnectOutcomes == {"ok", "no_port", "serial_error"}

\* faulty variant: the new transport replaces an open one that is not closed
connect_noclose(t, cfg, o) ==
    IF o = "no_port" THEN [raised |-> TRUE, t |-> t]
    ELSE IF o = "serial_error" THEN [raised |-> TRUE, t |-> t]
    ELSE [raised |-> FALSE,
          t |-> [ser |-> "open", ser_cfg |-> cfg, n_open |-> t.n_open + 1]]

\* faulty variant: the port is opened with the default configuration
connect_default(t, cfg, o) ==
    IF o = "no_port" THEN [raised |-> TRUE, t |-> t]
    ELSE IF o = "serial_error" THEN [raised |-> TRUE, t |-> close_if_open(t)]
    ELSE [raised |-> FALSE,
          t |-> [ser |-> "open", ser_cfg |-> 0,
                 n_open |-> close_if_open(t).n_open + 1]]

\* faulty variant: a failed opening returns normally
connect_silent(t, cfg, o) ==
    IF o = "no_port" THEN [raised |-> FALSE, t |-> t]
    ELSE IF o = "serial_error" THEN [raised |-> FALSE, t |-> close_if_open(t)]
    ELSE [raised |-> FALSE,
          t |-> [ser |-> "open", ser_cfg |-> cfg,
                 n_open |-> close_if_open(t).n_open + 1]]

\* lines 66-85.  t: the transport before, cfg: self.serial_config; raised:
\* ConnectionError leaves the call
connect(t, cfg, o) ==
    IF o = "no_port" THEN [raised |-> TRUE, t |-> t]
    ELSE IF o = "serial_error" THEN [raised |-> TRUE, t |-> close_if_open(t)]
    ELSE [raised |-> FALSE,
          t |-> [ser |-> "open", ser_cfg |-> cfg,
                 n_open |-> close_if_open(t).n_open + 1]]

----------------------------------------------------------------------------
(* scan_devices *)

\* faulty variant: one attempt too many
InRange_extra(n, count) == n < count + 1

\* n in range(count)
InRange(n, count) == n < count

\* faulty variant: the retry loop without the break after a reading
Retry_nobreak(found, n, count) == InRange(n + 1, count)

\* lines 290-297: another attempt at the same address follows iff this one gave
\* no reading (break otherwise) and the range is not exhausted
Retry(found, n, count) == ~found /\ InRange(n + 1, count)

\* faulty variant: a transport exception leaves the address loop
Escapes_transport(f) == f # "none"

\* lines 298-299: `except Exception` around each attempt; no exception of an
\* attempt reaches the handler of the configuration trial (lines 301-304)
Escapes(f) == FALSE

\* faulty variant: every other address
NextAddr_skip(a) == a + 2

\* line 281: for addr in range(1, 33), the step to the next address
NextAddr(a) == a + 1

\* faulty variant: the address is recorded whatever the probe returned
Record_always(inv, found, a, c) == Append(inv, <<a, c>>)

\* faulty variant: a found device is put at the head of the inventory
Record_front(inv, found, a, c) == IF found THEN << <<a, c>> >> \o inv ELSE inv

\* lines 291-294: `if temp is not None: dispositivos_encontrados.append((addr, config))`
Record(inv, found, a, c) == IF found THEN Append(inv, <<a, c>>) ELSE inv

\* the caller gives the reader its list of candidate configurations
\* (__init__ creates none)
SetSerialConfigs ==
    /\ pc = "idle"
    /\ serial_configs = Unset
    /\ \E n \in 0..MaxConfigs : serial_configs' = Assigned([k \in 1..n |-> k])
    /\ UNCHANGED <<codec_vars, read_vars, serial_config, ser_cfg, retry_count, cfg_i,
                   addr, intento, dispositivos_encontrados, probed, nprobes,
                   answer, arrived, iofail, pc>>
    /\ UNCHANGED <<n_open, exchanges, mon_vars>>

\* lines 263-269: the call, the empty inventory, the first use of
\* self.serial_configs (AttributeError when the attribute does not exist)
ScanStart ==
    /\ pc = "idle"
    /\ \E rc \in 0..MaxRetry : retry_count' = rc
    /\ dispositivos_encontrados' = <<>>
    /\ probed' = <<>> /\ nprobes' = 0 /\ answer' = <<>> /\ arrived' = 0
    /\ iofail' = "none"
    /\ addr' = 0 /\ intento' = 0
    /\ IF serial_configs = Unset
       THEN pc' = "scan_raised" /\ cfg_i' = 0
       ELSE pc' = "scan_cfg" /\ cfg_i' = 1
    /\ UNCHANGED <<codec_vars, read_vars, serial_configs, serial_config, ser_cfg>>
    /\ UNCHANGED <<n_open, exchanges, mon_vars>>

\* lines 269-281 and 301-304: one configuration trial up to its first probe
ScanConfig ==
    /\ pc = "scan_cfg"
    /\ cfg_i <= Len(serial_configs.list)
    /\ serial_config' = serial_configs.list[cfg_i]
    /\ \E o \in ConnectOutcomes :
       \E r \in {connect(close_if_open(Transport), serial_configs.list[cfg_i], o)} :
        /\ ser' = r.t.ser /\ ser_cfg' = r.t.ser_cfg /\ n_open' = r.t.n_open
        /\ IF ~r.raised
           THEN /\ inbuf' = <<>>
                /\ IF InRange(0, retry_count)
                   THEN pc' = "scan_probe" /\ addr' = MinAddr /\ intento' = 0
                        /\ UNCHANGED cfg_i
                   ELSE pc' = "scan_cfg" /\ addr' = MaxAddr /\ intento' = 0
                        /\ cfg_i' = cfg_i + 1
           ELSE /\ cfg_i' = cfg_i + 1
                /\ UNCHANGED <<inbuf, pc, addr, intento>>
    /\ UNCHANGED <<codec_vars, wire, rpc, raddr, response, elapsed, result, io, written,
                   serial_configs, retry_count, dispositivos_encontrados, probed,
                   nprobes, answer, arrived, iofail, exchanges, mon_vars>>

\* lines 285-299: one attempt at one address, and the move to the next
\* attempt, address or configuration
ScanProbe ==
    /\ pc = "scan_probe"
    /\ \E f \in IOFailures :
       \E ans \in (IF f \in {"none", "poll"} THEN AnswersUnder(ser_cfg, addr)
                   ELSE {<<>>}) :
       \E n \in 0..Len(ans) :
       \E rd \in {read_device(ser, addr, SubSeq(ans, 1, n), f)} :
        LET called == f # "in_waiting"
            temp == IF called THEN rd.result ELSE None
            found == temp # None
            wrote == IF called THEN rd.io.write ELSE 0
        IN  /\ iofail' = f
            /\ answer' = ans
            /\ arrived' = n
            /\ raddr' = addr
            /\ result' = temp
            /\ response' = IF called THEN rd.response ELSE <<>>
            /\ io' = IF called THEN rd.io ELSE NoIO
            /\ written' = IF called THEN rd.cmd ELSE <<>>
            /\ inbuf' = IF wrote = 1 THEN rd.left
                        ELSE IF f \in {"in_waiting", "reset"} THEN inbuf ELSE <<>>
            /\ probed' = <<cfg_i, addr>>
            /\ nprobes' = IF probed = <<cfg_i, addr>> THEN nprobes + wrote ELSE wrote
            /\ dispositivos_encontrados' =
                 Record(dispositivos_encontrados, found, addr, serial_configs.list[cfg_i])
            /\ IF Escapes(f)
               THEN cfg_i' = cfg_i + 1 /\ pc' = "scan_cfg" /\ intento' = 0
                    /\ UNCHANGED addr
               ELSE IF Retry(found, intento, retry_count)
               THEN intento' = intento + 1 /\ UNCHANGED <<addr, cfg_i, pc>>
               ELSE IF addr < MaxAddr
               THEN addr' = NextAddr(addr) /\ intento' = 0 /\ UNCHANGED <<cfg_i, pc>>
               ELSE cfg_i' = cfg_i + 1 /\ pc' = "scan_cfg" /\ intento' = 0
                    /\ UNCHANGED addr
    /\ UNCHANGED <<codec_vars, ser, wire, rpc, elapsed, serial_configs, serial_config,
                   ser_cfg, retry_count>>
    /\ UNCHANGED <<n_open, exchanges, mon_vars>>

\* line 306: return dispositivos_encontrados
ScanReturn ==
    /\ pc = "scan_cfg"
    /\ cfg_i > Len(serial_configs.list)
    /\ pc' = "idle"
    /\ UNCHANGED <<codec_vars, read_vars, serial_configs, serial_config, ser_cfg,
                   retry_count, cfg_i, addr, intento, dispositivos_encontrados,
                   probed, nprobes, answer, arrived, iofail>>
    /\ UNCHANGED <<n_open, exchanges, mon_vars>>

Init == InitCodecIdle /\ InitRead /\ InitScan

Next == SetSerialConfigs \/ ScanStart \/ ScanConfig \/ ScanProbe \/ ScanReturn

Spec == Init /\ [][Next]_vars

----------------------------------------------------------------------------
(* test_connection and monitor_temperatures on a reader that has been used *)

max_errors == 3

\* device lists handed to monitor_temperatures: (address, configuration) records
DeviceLists == { <<>>, << <<2, 1>> >>, << <<3, 1>>, <<32, 1>> >> }

\* the transport calls of read_device that may raise
ReadFailures == {"none", "reset", "write", "poll"}

\* A reader between two operations: never connected, or left by a scan or a
\* test_connection with its last transport open or closed.
InitMon ==
    /\ InitCodecIdle
    /\ pc = "idle"
    /\ serial_config \in 0..MaxConfigs
    /\ serial_configs = (IF serial_config = 0 THEN Unset
                         ELSE Assigned([k \in 1..MaxConfigs |-> k]))
    /\ ser \in {"none", "open", "closed"}
    /\ ser_cfg = (IF ser = "open" THEN serial_config ELSE 0)
    /\ n_open = (IF ser = "open" THEN 1 ELSE 0)
    /\ inbuf = <<>> /\ wire = <<>> /\ rpc = "idle"
    /\ raddr = 0 /\ response = <<>> /\ elapsed = 0 /\ result = None
    /\ io = NoIO /\ written = <<>> /\ exchanges = 0
    /\ retry_count = 0 /\ cfg_i = 0 /\ addr = 0 /\ intento = 0
    /\ dispositivos_encontrados = <<>> /\ probed = <<>> /\ nprobes = 0
    /\ answer = <<>> /\ arrived = 0 /\ iofail = "none"
    /\ devices = <<>> /\ errors_count = 0 /\ dev_i = 0 /\ tc_ret = "none"

\* the bus test_connection and the monitor talk to: the one of the scan, where
\* a controller may also sit at address 1, the first one test_connection tries
AnswersAt(c, a) ==
    IF a = MinAddr THEN { <<>>, Frame(a, 0, 15, Checksum(a, 0, 15)) }
    ELSE AnswersUnder(c, a)

\* one call of read_device(a) by test_connection or the monitor: the transport
\* call that raises (if any), what the bus carries back and how much of it
\* arrives in time are chosen here; `temp` is what the caller gets
CallReadDevice(a) ==
    \E f \in (IF verify_connection(ser) /\ ValidAddress(a) THEN ReadFailures
              ELSE {"none"}) :
    \E ans \in (IF f \in {"none", "poll"} /\ verify_connection(ser)
                THEN AnswersAt(ser_cfg, a) ELSE {<<>>}) :
    \E n \in 0..Len(ans) :
    \E rd \in {read_device(ser, a, SubSeq(ans, 1, n), f)} :
        /\ iofail' = f
        /\ answer' = ans
        /\ arrived' = n
        /\ raddr' = a
        /\ result' = rd.result
        /\ response' = rd.response
        /\ io' = rd.io
        /\ written' = rd.cmd
        /\ inbuf' = IF rd.io.write = 1 THEN rd.left
                    ELSE IF f = "write" THEN <<>> ELSE inbuf

\* lines 202-216: test_connection opens the transport with the active
\* configuration; a failure to open makes it return False (lines 233-235)
TC_Start ==
    /\ pc = "idle"
    /\ \E o \in ConnectOutcomes :
       \E r \in {connect(Transport, serial_config, o)} :
        /\ ser' = r.t.ser /\ ser_cfg' = r.t.ser_cfg /\ n_open' = r.t.n_open
        /\ IF r.raised
           THEN pc' = "idle" /\ tc_ret' = "false" /\ dev_i' = 0
                /\ UNCHANGED inbuf
           ELSE pc' = "tc_probe" /\ tc_ret' = "none" /\ dev_i' = 1
                /\ inbuf' = <<>>
    /\ UNCHANGED <<codec_vars, wire, rpc, raddr, response, elapsed, result, io,
                   written, serial_configs, serial_config, retry_count, cfg_i, addr,
                   intento, dispositivos_encontrados, probed, nprobes, answer,
                   arrived, iofail, exchanges, devices, errors_count>>

\* faulty variant: both addresses are probed before the verdict
TC_Probe_nostop ==
    /\ pc = "tc_probe"
    /\ CallReadDevice(dev_i)
    /\ IF dev_i < 2
       THEN /\ dev_i' = dev_i + 1 /\ UNCHANGED pc
            /\ tc_ret' = (IF result' # None THEN "true" ELSE tc_ret)
       ELSE /\ pc' = "idle" /\ UNCHANGED dev_i
            /\ tc_ret' = (IF result' # None \/ tc_ret = "true" THEN "true"
                          ELSE "false")
    /\ UNCHANGED <<codec_vars, ser, wire, rpc, elapsed, serial_configs, serial_config,
                   ser_cfg, retry_count, cfg_i, addr, intento,
                   dispositivos_encontrados, probed, nprobes, n_open, exchanges,
                   devices, errors_count>>

\* lines 219-231: for addr in [1, 2]: return True at the first reading,
\* False after both
TC_Probe ==
    /\ pc = "tc_probe"
    /\ CallReadDevice(dev_i)
    /\ IF result' # None
       THEN pc' = "idle" /\ tc_ret' = "true" /\ UNCHANGED dev_i
       ELSE IF dev_i < 2
       THEN dev_i' = dev_i + 1 /\ UNCHANGED <<pc, tc_ret>>
       ELSE pc' = "idle" /\ tc_ret' = "false" /\ UNCHANGED dev_i
    /\ UNCHANGED <<codec_vars, ser, wire, rpc, elapsed, serial_configs, serial_config,
                   ser_cfg, retry_count, cfg_i, addr, intento,
                   dispositivos_encontrados, probed, nprobes, n_open, exchanges,
                   devices, errors_count>>

\* lines 308-317: the call; an empty device list raises ValueError
MonStart ==
    /\ pc = "idle"
    /\ \E devs \in DeviceLists :
        /\ devices' = devs
        /\ pc' = IF devs = <<>> THEN "mon_raised_empty" ELSE "mon_top"
    /\ errors_count' = 0
    /\ dev_i' = 0
    /\ UNCHANGED <<codec_vars, read_vars, scan_vars_but_pc, n_open, exchanges, tc_ret>>

\* lines 319-320 and 336-341: verify_connection at the top of a cycle; when it
\* raises ConnectionError the handler counts it and gives up at max_errors
MonVerify ==
    /\ pc = "mon_top"
    /\ IF verify_connection(ser)
       THEN pc' = "mon_poll" /\ dev_i' = 1 /\ UNCHANGED errors_count
       ELSE /\ errors_count' = errors_count + 1
            /\ pc' = IF errors_count + 1 >= max_errors THEN "mon_raised_budget"
                     ELSE "mon_backoff"
            /\ UNCHANGED dev_i
    /\ UNCHANGED <<codec_vars, read_vars, scan_vars_but_pc, n_open, exchanges,
                   devices, tc_ret>>

\* faulty variant: a reading leaves the counter as it is
MonProbe_noreset ==
    /\ pc = "mon_poll"
    /\ CallReadDevice(devices[dev_i][1])
    /\ IF dev_i < Len(devices)
       THEN dev_i' = dev_i + 1 /\ UNCHANGED pc
       ELSE dev_i' = 0 /\ pc' = "mon_top"
    /\ UNCHANGED <<codec_vars, ser, wire, rpc, elapsed, serial_configs, serial_config,
                   ser_cfg, retry_count, cfg_i, addr, intento,
                   dispositivos_encontrados, probed, nprobes, n_open, exchanges,
                   devices, errors_count, tc_ret>>

\* faulty variant: a probe without a reading counts as an error
MonProbe_countnull ==
    /\ pc = "mon_poll"
    /\ CallReadDevice(devices[dev_i][1])
    /\ errors_count' = IF result' # None THEN 0 ELSE errors_count + 1
    /\ IF dev_i < Len(devices)
       THEN dev_i' = dev_i + 1 /\ UNCHANGED pc
       ELSE dev_i' = 0 /\ pc' = "mon_top"
    /\ UNCHANGED <<codec_vars, ser, wire, rpc, elapsed, serial_configs, serial_config,
                   ser_cfg, retry_count, cfg_i, addr, intento,
                   dispositivos_encontrados, probed, nprobes, n_open, exchanges,
                   devices, tc_ret>>

\* lines 322-334: one device of the cycle; a reading resets the counter; after
\* the last device the cycle sleeps and starts again
MonProbe ==
    /\ pc = "mon_poll"
    /\ CallReadDevice(devices[dev_i][1])
    /\ errors_count' = IF result' # None THEN 0 ELSE errors_count
    /\ IF dev_i < Len(devices)
       THEN dev_i' = dev_i + 1 /\ UNCHANGED pc
       ELSE dev_i' = 0 /\ pc' = "mon_top"
    /\ UNCHANGED <<codec_vars, ser, wire, rpc, elapsed, serial_configs, serial_config,
                   ser_cfg, retry_count, cfg_i, addr, intento,
                   dispositivos_encontrados, probed, nprobes, n_open, exchanges,
                   devices, tc_ret>>

\* lines 342-344 and 347-349: the 5 s pause and self.connect(); a
\* ConnectionError raised by connect leaves the handler and the monitor
MonReconnect ==
    /\ pc = "mon_backoff"
    /\ \E o \in ConnectOutcomes :
       \E r \in {connect(Transport, serial_config, o)} :
        /\ ser' = r.t.ser /\ ser_cfg' = r.t.ser_cfg /\ n_open' = r.t.n_open
        /\ pc' = IF r.raised THEN "mon_raised_reopen" ELSE "mon_top"
        /\ inbuf' = IF r.raised THEN inbuf ELSE <<>>
    /\ UNCHANGED <<codec_vars, wire, rpc, raddr, response, elapsed, result, io,
                   written, serial_configs, serial_config, retry_count, cfg_i, addr,
                   intento, dispositivos_encontrados, probed, nprobes, answer,
                   arrived, iofail, exchanges, mon_vars>>

\* faulty variant: an interrupt during the pause before the reopen gets out
MonInterrupt_handler ==
    /\ pc \in {"mon_top", "mon_poll", "mon_backoff"}
    /\ pc' = IF pc = "mon_backoff" THEN "mon_raised_reopen" ELSE "mon_stopped"
    /\ UNCHANGED <<codec_vars, read_vars, scan_vars_but_pc, n_open, exchanges, mon_vars>>

\* lines 345-346: KeyboardInterrupt, raised wherever the monitor is inside its
\* try block, is caught by the outer handler and the call returns
MonInterrupt ==
    /\ pc \in {"mon_top", "mon_poll", "mon_backoff"}
    /\ pc' = "mon_stopped"
    /\ UNCHANGED <<codec_vars, read_vars, scan_vars_but_pc, n_open, exchanges, mon_vars>>

\* the transport is closed from outside the monitor, so that is_open is false
\* at the next verify_connection
TransportLost ==
    /\ pc \in {"mon_top", "mon_poll"}
    /\ ser = "open"
    /\ ser' = "closed"
    /\ n_open' = n_open - 1
    /\ UNCHANGED <<codec_vars, inbuf, wire, rpc, raddr, response, elapsed, result, io,
                   written, scan_vars, exchanges, mon_vars>>

MonRaised == {"mon_raised_empty", "mon_raised_budget", "mon_raised_reopen"}

\* main, lines 562-587: monitor_temperatures has returned and the menu loop
\* goes round
MainMenu ==
    /\ pc = "mon_stopped"
    /\ pc' = "main_menu"
    /\ UNCHANGED <<codec_vars, read_vars, scan_vars_but_pc, n_open, exchanges, mon_vars>>

\* faulty variant: main ends without closing the reader
MainFinally_noclose ==
    /\ pc \in MonRaised \cup {"main_menu"}
    /\ pc' = "main_finished"
    /\ UNCHANGED <<codec_vars, read_vars, scan_vars_but_pc, n_open, exchanges, mon_vars>>

\* main, lines 598-606: the menu loop is left (option 7, or an exception that
\* came out of the monitor and was printed at line 598-599) and the finally
\* clause calls reader.close() (lines 351-358)
MainFinally ==
    /\ pc \in MonRaised \cup {"main_menu"}
    /\ pc' = "main_finished"
    /\ \E t \in {close_if_open(Transport)} :
        ser' = t.ser /\ ser_cfg' = t.ser_cfg /\ n_open' = t.n_open
    /\ UNCHANGED <<codec_vars, inbuf, wire, rpc, raddr, response, elapsed, result, io,
                   written, serial_configs, serial_config, retry_count, cfg_i, addr,
                   intento, dispositivos_encontrados, probed, nprobes, answer,
                   arrived, iofail, exchanges, mon_vars>>

NextMon ==
    \/ TC_Start \/ TC_Probe
    \/ MonStart \/ MonVerify \/ MonProbe \/ MonReconnect \/ MonInterrupt
    \/ TransportLost
    \/ MainMenu \/ MainFinally

SpecMon == InitMon /\ [][NextMon]_vars

----------------------------------------------------------------------------
(* Properties *)

InInventory(a, c) ==
    \E k \in DOMAIN dispositivos_encontrados : dispositivos_encontrados[k] = <<a, c>>

\* the last probe's device sent the complete, correct frame for the probed
\* address and all six bytes arrived in time, with no transport failure
CorrectAnswerArrived ==
    /\ probed # <<>> /\ iofail = "none" /\ io.write = 1
    /\ Len(answer) = 6 /\ arrived = 6
    /\ answer[1] = STX /\ answer[2] = raddr /\ answer[3] = 0
    /\ answer[5] = Checksum(raddr, 0, answer[4]) /\ answer[6] = ETX

\* C1: during scan_devices, when the device at the probed address answers with
\* the complete correct frame 02 a 00 t (a^00^t) 03 within the budget,
\* read_device returns t/10 and (a, config) is in the inventory.
C1_CorrectFrameRecorded ==
    CorrectAnswerArrived =>
        /\ result = Reading(answer[4])
        /\ InInventory(raddr, serial_config)

\* C2: parse_response recognises the synthetic correct response to
\* create_command(a), a in 1..32, and returns its temperature byte t as the
\* unsigned reading t/10.
C2_RoundTrip ==
    \A a \in MinAddr..MaxAddr :
        (/\ cpc = "parsed"
         /\ Len(cin_resp) = 6
         /\ cin_resp = Frame(create_command(a)[2], 0, cin_resp[4], Xor(a, cin_resp[4])))
        => /\ cout = Reading(cin_resp[4])
           /\ cout.tenths \in Byte

C2_Witness ==
    /\ cpc = "parsed"
    /\ cin_resp = <<2, 32, 0, 255, 223, 3>>
    /\ cout = Reading(255)

\* C3: create_command(a) is [0x02, a, 0x72, a ^ 0x72] for a in 1..32 (address 5
\* gives 02 05 72 77), and these are the bytes read_device writes.
C3_CommandFrame ==
    /\ \A a \in MinAddr..MaxAddr : create_command(a) = <<2, a, 114, Xor(a, 114)>>
    /\ create_command(1) = <<2, 1, 114, 115>>
    /\ create_command(5) = <<2, 5, 114, 119>>
    /\ create_command(32) = <<2, 32, 114, 82>>
    /\ io.write > 0 =>
        /\ raddr \in MinAddr..MaxAddr
        /\ io.write = 1
        /\ written = <<2, raddr, 114, Xor(raddr, 114)>>
    /\ io.write = 0 => written = <<>>

C3_Witness ==
    rpc = "loop" /\ raddr = 5 /\ io.write = 1 /\ written = <<2, 5, 114, 119>>

\* C4: parse_response gives no reading for a 6-byte STX..ETX response whose
\* checksum byte differs from address^status^temp in one bit, nor for one whose
\* status is not 0 (valid checksum or not); 02 05 00 0F 1A 03 gives a reading
\* exactly when 0x1A = 05^00^0F.
C4_ChecksumAndStatus ==
    (cpc = "parsed" /\ Len(cin_resp) = 6 /\ cin_resp[1] = STX /\ cin_resp[6] = ETX)
    => LET good == Checksum(cin_resp[2], cin_resp[3], cin_resp[4]) IN
       /\ (\E k \in 0..7 : cin_resp[5] = FlipBit(good, k)) => cout = None
       /\ cin_resp[3] # 0 => cout = None
       /\ cin_resp = <<2, 5, 0, 15, 26, 3>> => (cout # None <=> 26 = Xor(Xor(5, 0), 15))

C4_Witness ==
    cpc = "parsed" /\ cin_resp = <<2, 5, 0, 15, 26, 3>> /\ cout = None

\* C5: read_device with parse_response gives no reading for a response shorter
\* than 6 bytes, or not starting with 0x02, or not ending with 0x03.
C5_MalformedRejected ==
    (/\ rpc = "done"
     /\ io.write = 1
     /\ \/ Len(response) < 6
        \/ response[1] # STX
        \/ Last(response) # ETX)
    => result = None

\* C6: read_device with an address outside 1..32 makes no transport call (no
\* reset_input_buffer, no write, no read) and returns no reading.
C6_InvalidAddressNoIO ==
    raddr \notin 1..32 =>
        /\ io = NoIO
        /\ written = <<>>
        /\ rpc \in {"call", "done"}
        /\ result = None

C6_Witness ==
    rpc = "done" /\ ser = "open" /\ raddr = 33 /\ io = NoIO /\ result = None

\* C7 as stated: create_command fails for every address outside 1..32.
C7_EncoderRejectsOutOfRange ==
    (cpc = "created" /\ cin_addr \notin 1..32) => cout = DeviceError

\* C7 as amended: create_command makes no 1..32 check; it fails (DeviceError)
\* exactly for addresses that are no byte, and returns [0x02, a, 0x72, a ^ 0x72]
\* for every a in 0..255, 0 and 33..255 included.
C7_EncoderRejectsNonBytes ==
    cpc = "created" =>
        /\ cout = DeviceError <=> cin_addr \notin 0..255
        /\ cin_addr \in 0..255 => cout = <<2, cin_addr, 114, Xor(cin_addr, 114)>>

C7_Witness ==
    cpc = "created" /\ cin_addr = 33 /\ cout = <<2, 33, 114, 83>>

\* C8: the response-reading loop always ends; when it ends without a transport
\* exception, a 0x03 has just been appended or the budget has elapsed; and once
\* the budget has elapsed no further byte is read.
C8_LoopTerminates ==
    /\ (rpc = "loop") ~> (rpc \in {"done", "failed"})
    /\ [][(rpc = "loop" /\ rpc' \in {"deliver", "done"})
            => (elapsed' >= PollBudget \/ response' = Append(response, ETX))]_vars
    /\ [][(rpc = "loop" /\ elapsed >= PollBudget)
            => (response' = response /\ io' = io)]_vars

\* a device that sent bytes but never 0x03: the probe ended at the timeout
C8_Witness ==
    /\ rpc = "done" /\ io.write = 1 /\ elapsed >= PollBudget
    /\ response = <<2, 32, 0, 15, 47>>

\* C9: a probe whose collected response is shorter than 6 bytes, or lacks the
\* trailing 0x03 at the timeout, yields no reading and does not put its address
\* in the inventory.
C9_ShortResponseNoReading ==
    (/\ probed # <<>>
     /\ io.write = 1
     /\ \/ Len(response) < 6
        \/ Last(response) # ETX)
    => /\ result = None
       /\ ~InInventory(raddr, serial_config)

\* C10: scan_devices writes at most retry_count commands for one address under
\* one configuration, and one probe writes at most one.
C10_RetryBound ==
    /\ nprobes <= retry_count
    /\ io.write <= 1

C10_Witness ==
    pc = "scan_probe" /\ retry_count = 2 /\ nprobes = 2 /\ probed = <<1, 3>>

C13_CommandsFrom1To32 ==
    /\ [][pc = "scan_probe" =>
            /\ io'.write = 1 => written'[2] = addr
            /\ pc' = "scan_probe" => addr' >= addr]_vars
    /\ [][(pc = "scan_probe" /\ addr = MinAddr /\ addr' # addr) => nprobes' >= 1]_vars
    /\ [][(pc = "scan_probe" /\ addr = MaxAddr /\ pc' # "scan_probe")
            => nprobes' >= 1]_vars

\* C13 as amended: the attempts of a pass go through 1, 2, ..., 32 in this
\* order, every command written is the one for the address of its attempt, so
\* the written addresses never decrease; address 1 (address 32) has its command
\* when the pass leaves it unless, in each of its attempts, a transport call
\* raised before the write.
C13_CommandsAscending ==
    /\ [][pc = "scan_probe" =>
            /\ io'.write = 1 => written' = create_command(addr)
            /\ io'.write = 0 => (written' = <<>> /\ iofail' \in {"in_waiting", "reset", "write"})
            /\ pc' = "scan_probe" => addr' \in {addr, addr + 1}
            /\ pc' # "scan_probe" => addr = MaxAddr]_vars
    /\ [][(pc = "scan_probe" /\ addr \in {MinAddr, MaxAddr}
           /\ (addr' # addr \/ pc' # "scan_probe")
           /\ iofail' \in {"none", "poll"})
            => nprobes' >= 1]_vars
    /\ [][(pc = "scan_cfg" /\ pc' = "scan_probe") => addr' = MinAddr]_vars

\* the pass has left address 1, whose only attempt wrote its command
C13_Witness ==
    /\ pc = "scan_probe" /\ addr = 2 /\ probed = <<1, 1>> /\ nprobes = 1
    /\ written = <<2, 1, 114, 115>> /\ retry_count = 1

\* C15: the configuration trial loop of scan_devices stops at the first
\* configuration under which a device answered: no later candidate is tried
\* once the inventory holds a record, and all records of the inventory carry
\* the same configuration.
C15_StopsAtFirstAnswering ==
    /\ \A j, k \in DOMAIN dispositivos_encontrados :
          dispositivos_encontrados[j][2] = dispositivos_encontrados[k][2]
    /\ (/\ pc \in {"scan_cfg", "scan_probe"}
        /\ cfg_i <= Len(serial_configs.list)
        /\ dispositivos_encontrados # <<>>)
       => (/\ pc = "scan_probe"
           /\ dispositivos_encontrados[1][2] = serial_configs.list[cfg_i])

C17_OpenFailureSkipsConfig ==
    /\ [][(pc = "scan_cfg" /\ cfg_i <= Len(serial_configs.list) /\ ser' # "open") =>
            /\ pc' = "scan_cfg" /\ cfg_i' = cfg_i + 1
            /\ dispositivos_encontrados' = dispositivos_encontrados
            /\ probed' = probed /\ io' = io /\ written' = written
            /\ exchanges' = exchanges]_vars
    /\ [](pc = "scan_probe" => (ser = "open" /\ ser_cfg = serial_configs.list[cfg_i]))
    /\ [](pc = "scan_raised" => serial_configs = Unset)

\* the second candidate could not be opened; the record of the first is kept
C17_Witness ==
    /\ pc = "scan_cfg" /\ cfg_i = 3 /\ serial_config = 2 /\ ser = "closed"
    /\ n_open = 0 /\ probed = <<1, 32>> /\ InInventory(2, 1)

MonRunning == {"mon_top", "mon_poll", "mon_backoff"}

\* C18: the monitor reconnects only when the count of consecutive connection
\* failures has reached max_errors = 3, and at that count it reconnects and
\* resumes polling instead of ending.
C18_ReconnectAtMaxErrors ==
    /\ pc = "mon_backoff" => errors_count = max_errors
    /\ pc # "mon_raised_budget"

\* C19: errors_count is always in 0..max_errors and below max_errors while the
\* monitor polls; a probe that returns a reading sets it to 0, a failed
\* verify_connection adds exactly 1, and nothing else changes it.
C19_ErrorCounter ==
    /\ [](errors_count \in 0..max_errors)
    /\ [](pc \in MonRunning => errors_count < max_errors)
    /\ [][(pc = "mon_poll" /\ dev_i' # dev_i) =>
            errors_count' = (IF result' # None THEN 0 ELSE errors_count)]_vars
    /\ [][(pc = "mon_top" /\ ~verify_connection(ser) /\ pc' # "mon_stopped") =>
            errors_count' = errors_count + 1]_vars
    /\ [][errors_count' # errors_count =>
            \/ errors_count' = 0 /\ pc \in {"mon_poll", "idle"}
            \/ errors_count' = errors_count + 1 /\ pc = "mon_top"
               /\ ~verify_connection(ser)]_vars

\* polling goes on after a counted connection failure and a reopen
C19_Witness ==
    pc = "mon_poll" /\ errors_count = 1 /\ ser = "open" /\ dev_i = 1

C14_OneExchange ==
    /\ [](exchanges \in {0, 1})
    /\ [](exchanges = 1 <=> rpc \in {"loop", "deliver"})
    /\ [][io'.write > io.write => (exchanges = 0 /\ rpc = "write")]_vars
    /\ [][raddr' # raddr => (rpc \in {"done", "failed"} /\ exchanges = 0)]_vars

\* the command for address 3 is out; the probe of address 2 ended at its timeout
\* with one byte of its answer still to come
C14_Witness ==
    /\ raddr = 3 /\ rpc = "loop" /\ exchanges = 1 /\ written = <<2, 3, 114, 113>>
    /\ Len(wire) > 6

\* C21: when monitoring has ended, by an interrupt or by an error that came
\* out of monitor_temperatures, main goes through its finally clause: a state
\* of main from which no step is left is the finished one, and no transport is
\* open in it.
C21_ClosedAtExit ==
    /\ [](pc = "main_finished" => (ser # "open" /\ n_open = 0))
    /\ [](pc \in MonRaised \cup {"main_menu"} => ENABLED MainFinally)
    /\ [](pc = "mon_stopped" => ENABLED MainMenu)
    /\ [](~ENABLED NextMon => pc = "main_finished")
    /\ [][(pc \in MonRaised) => (pc' = "main_finished")]_vars

\* the monitor was interrupted with its transport open; main has closed it
C21_Witness ==
    /\ pc = "main_finished" /\ ser = "closed" /\ ser_cfg = 1 /\ result # None
    /\ devices # <<>> /\ errors_count = 0

\* C22: the monitor loop ends only by an interrupt or with max_errors counted
\* connection failures: it is never ended by a reopen that failed while fewer
\* failures were counted, nor by a probe that gave no reading.
C22_OnlyBudgetOrStop ==
    /\ pc # "mon_raised_reopen"
    /\ pc = "mon_raised_budget" => errors_count = max_errors
    /\ pc \in {"mon_raised_budget", "mon_stopped"} \cup MonRunning => devices # <<>>

\* C23: a reconnect of the monitor opens the transport with the configuration
\* stored in the records of the monitored devices (on a reader whose
\* serial_config a scan has set).
C23_ReconnectLastKnownGood ==
    [][(pc = "mon_backoff" /\ serial_config # 0 /\ ser' = "open") =>
        \A k \in DOMAIN devices : ser_cfg' = devices[k][2]]_vars

IsPrefix(u, v) == Len(u) <= Len(v) /\ SubSeq(v, 1, Len(u)) = u

\* C24: during a scan the inventory only grows, by one record at a time and
\* only in a probe whose response decoded to a reading, the record being that
\* probe's (address, configuration); a probe without a reading adds nothing, so
\* an address whose attempts all failed is not in the inventory.
C24_InventorySound ==
    /\ [][(pc \in {"scan_cfg", "scan_probe"}) =>
            IsPrefix(dispositivos_encontrados, dispositivos_encontrados')]_vars
    /\ [][(pc = "scan_probe" /\ dispositivos_encontrados' # dispositivos_encontrados) =>
            /\ dispositivos_encontrados' =
                  Append(dispositivos_encontrados, <<raddr', ser_cfg>>)
            /\ io'.write = 1 /\ written' = create_command(raddr')
            /\ result' # None /\ result' = Deliver(response')]_vars
    /\ [][(pc = "scan_probe" /\ result' = None) =>
            /\ dispositivos_encontrados' = dispositivos_encontrados
            /\ (addr' # addr \/ pc' # "scan_probe") => ~InInventory(addr, serial_config)']_vars
    /\ [](pc = "scan_probe" =>
            \A k \in DOMAIN dispositivos_encontrados :
                \/ dispositivos_encontrados[k][2] < serial_config
                \/ /\ dispositivos_encontrados[k][2] = serial_config
                   /\ dispositivos_encontrados[k][1] < addr)

\* address 2 answered; both attempts at address 3 failed and it is left out
C24_Witness ==
    /\ pc = "scan_probe" /\ addr = 4 /\ retry_count = 2 /\ probed = <<1, 3>>
    /\ nprobes = 2 /\ result = None
    /\ dispositivos_encontrados = << <<2, 1>> >>

C26_ReportedInRange ==
    /\ (cpc = "parsed" /\ cout # None) =>
          ((0 - 500) <= cout.tenths /\ cout.tenths <= 1050)
    /\ shown.kind = "temp" => ((0 - 500) <= shown.v /\ shown.v <= 1500)

C26_Witness ==
    script = "escaner" /\ reg_pc = "done" /\ shown = TempLine(1500)


\* C27: the list of candidate serial configurations exists from construction:
\* scan_devices on a reader nobody has touched since __init__ reaches the
\* configuration trial loop and never fails before a configuration is tried.
C27_ScanReachesTrialLoop ==
    /\ pc # "scan_raised"
    /\ pc \in {"scan_cfg", "scan_probe"} => serial_configs.exists


\* C28 (as stated): each probe verifies the transport, clears the input
\* buffer, writes the command and only then accumulates, one byte per poll;
\* the transport is never written to or read from while it is not open, and
\* no byte is waiting in the input buffer when the command is written, so the
\* response never starts with a byte older than the command.
C28_StaleBytesNeverRead ==
    /\ [][(rpc = "write" /\ rpc' = "loop") => inbuf = <<>>]_vars
    /\ [](ser # "open" => io = NoIO)

\* C28 (amended): the order verify, clear, write, accumulate holds, at most
\* one byte is read per poll, the transport is never touched while it is not
\* open, and the bytes that were in the input buffer when the probe began are
\* discarded by the clear before the command is written.
C28_ProbeOrder ==
    /\ [](ser # "open" => io = NoIO)
    /\ [](io.write >= 1 => io.reset = 1)
    /\ [](io.read >= 1 => io.write = 1)
    /\ [](io.reset <= 1 /\ io.write <= 1)
    /\ [][(rpc = "call" /\ rpc' = "write") => inbuf' = <<>>]_vars
    /\ [][io'.read <= io.read + 1 /\ Len(response') <= Len(response) + 1]_vars
    /\ [][(rpc = "loop" /\ io'.read = io.read + 1 /\ rpc' = "loop")
            => elapsed' > elapsed]_vars

C28_Witness ==
    /\ raddr = 2 /\ rpc = "done" /\ result = Reading(15)
    /\ io = [reset |-> 1, write |-> 1, read |-> 6]


\* C29: the bytes read_device hands to parse_response hold 0x03 at most once
\* and only as their last byte: the accumulator never grows past a 0x03, the
\* loop is left at the first 0x03 received whatever its place in the frame,
\* and what the decoder gets is the accumulator as it then stands.
C29_EtxOnlyLast ==
    /\ [](\A i \in 1..Len(response) : response[i] = ETX => i = Len(response))
    /\ [](rpc = "loop" => \A i \in 1..Len(response) : response[i] # ETX)
    /\ [][(rpc = "loop" /\ inbuf # <<>> /\ Head(inbuf) = ETX /\ response' # response)
            => (rpc' = "deliver" /\ response' = Append(response, ETX))]_vars
    /\ [][(rpc \in {"loop", "deliver"} /\ rpc' = "done")
            => (/\ response' = response
                /\ result' = (IF Len(response) >= MinResponseLen
                               THEN parse_response(response) ELSE None))]_vars

C29_Witness ==
    /\ rpc = "done" /\ raddr = 3 /\ result = None
    /\ response = <<STX, ETX>>
    /\ inbuf \o wire = <<0, 15, Checksum(3, 0, 15), ETX>>


\* C30: read_device never raises to its caller: whatever the address, the
\* state of the transport (absent, closed, open, failing in the middle of the
\* exchange) and the bytes received, the call ends with a reading or with
\* None, and until then nothing has been returned.
C30_NeverRaises ==
    /\ rpc \in {"done", "failed"} =>
          \/ result = None
          \/ DOMAIN result = {"tenths"} /\ result.tenths \in Byte
    /\ rpc \notin {"done", "failed"} => result = None

C30_Witness ==
    /\ rpc = "failed" /\ raddr = 3 /\ result = None
    /\ io = [reset |-> 1, write |-> 1, read |-> 1] /\ response = <<STX>>


\* C31: during monitoring a probe that yields no reading (nothing in time, a
\* malformed frame, a checksum or status error, a failing transport call)
\* leaves the consecutive-error counter, the transport and the device list as
\* they were; the counter changes only when verify_connection fails (plus
\* one) or when a probe yields a reading (back to zero).
C31_NullProbeFrame ==
    /\ [][(pc = "mon_poll" /\ dev_i' # dev_i /\ result' = None)
            => UNCHANGED <<errors_count, ser, ser_cfg, n_open, devices>>]_vars
    /\ [][(pc \in {"mon_top", "mon_poll", "mon_backoff"}
             /\ errors_count' # errors_count)
            => \/ /\ pc = "mon_top" /\ ~verify_connection(ser)
                  /\ errors_count' = errors_count + 1
               \/ /\ pc = "mon_poll" /\ result' # None
                  /\ errors_count' = 0]_vars

C31_Witness ==
    /\ pc = "mon_poll" /\ dev_i = 2 /\ errors_count = 1
    /\ ser = "open" /\ raddr = 3 /\ result = None
    /\ io.write = 1 /\ iofail = "none" /\ response = <<STX, ETX>>


\* C32: test_connection opens the transport with the active configuration,
\* probes address 1 and then address 2, returns True at the first reading
\* without probing further, returns False when neither address yields a
\* reading or when the transport cannot be opened (then nothing is probed),
\* and never ends in any other way.
C32_ConnectionTest ==
    /\ [][(pc = "idle" /\ pc' = "tc_probe")
            => (/\ ser' = "open" /\ ser_cfg' = serial_config
                /\ serial_config' = serial_config
                /\ dev_i' = 1 /\ tc_ret' = "none")]_vars
    /\ [][(pc = "idle" /\ pc' = "idle")
            => (tc_ret' = "false" /\ UNCHANGED <<io, written, raddr, result>>)]_vars
    /\ [][(pc = "tc_probe")
            => (/\ raddr' = dev_i
                /\ result' # None
                      => (pc' = "idle" /\ tc_ret' = "true" /\ dev_i' = dev_i)
                /\ (result' = None /\ dev_i = 1)
                      => (pc' = "tc_probe" /\ tc_ret' = "none" /\ dev_i' = 2)
                /\ (result' = None /\ dev_i = 2)
                      => (pc' = "idle" /\ tc_ret' = "false"))]_vars
    /\ [](pc = "tc_probe" => (dev_i \in {1, 2} /\ tc_ret = "none" /\ ser = "open"))
    /\ [](tc_ret \in {"none", "true", "false"})

C32_Witness ==
    /\ pc = "idle" /\ tc_ret = "true" /\ dev_i = 1
    /\ raddr = 1 /\ result = Reading(15) /\ ser = "open" /\ ser_cfg = serial_config


\* position of configuration c in the trial order of scan_devices
TrialIndex(c) ==
    CHOOSE k \in DOMAIN serial_configs.list : serial_configs.list[k] = c

\* C33: in the inventory of scan_devices, while it is built and when it is
\* returned, no (address, configuration) pair appears twice, and the records
\* follow the configuration trial order and, within one configuration, have
\* strictly ascending addresses.
C33_InventoryOrdered ==
    \A j, k \in DOMAIN dispositivos_encontrados :
        j < k =>
            /\ dispositivos_encontrados[j] # dispositivos_encontrados[k]
            /\ \/ TrialIndex(dispositivos_encontrados[j][2])
                     < TrialIndex(dispositivos_encontrados[k][2])
               \/ /\ dispositivos_encontrados[j][2] = dispositivos_encontrados[k][2]
                  /\ dispositivos_encontrados[j][1] < dispositivos_encontrados[k][1]

C33_Witness ==
    /\ pc = "idle" /\ cfg_i = 3
    /\ dispositivos_encontrados = << <<2, 1>>, <<3, 1>>, <<32, 1>>, <<3, 2>> >>


\* the addresses on the list of escanear_dispositivos
Encontradas == { encontrados[k] : k \in DOMAIN encontrados }

\* C34: escanear_dispositivos reads each slave address 1..247 exactly once, in
\* ascending order (the k-th read is of address k); a read that ends in an
\* error or an exception is followed by the read of the next address, so a
\* scan that returns after connecting has read all 247; the list is strictly
\* ascending and holds exactly the addresses whose read gave a result
\* without error.
C34_ModbusScan ==
    /\ [](mb_pc = "scan" =>
            (direccion \in FirstSlave..LastSlave /\ direccion = n_sondeos + 1))
    /\ [][(n_sondeos' # n_sondeos) =>
            (/\ mb_pc = "scan" /\ n_sondeos' = direccion
             /\ direccion < LastSlave => (mb_pc' = "scan" /\ direccion' = direccion + 1)
             /\ direccion = LastSlave => mb_pc' \in {"close", "returned"})]_vars
    /\ []((mb_pc \in {"close", "returned"} /\ cliente # "failed")
            => n_sondeos = LastSlave)
    /\ [](\A j, k \in DOMAIN encontrados : j < k => encontrados[j] < encontrados[k])
    /\ [](Encontradas = respondieron)

C34_Witness ==
    /\ script = "escaner_alternativo" /\ mb_pc = "returned"
    /\ n_sondeos = LastSlave /\ encontrados = <<1, 247>>

\* C35: in escaner.py, when the client does not connect the function returns
\* the empty list and no address is read; when it connects, close() is called
\* exactly once, after the read of address 247 and together with the return,
\* on every path that an operator interrupt does not end.
C35_ClientClosedOnce ==
    /\ [](cliente = "failed" =>
            (/\ mb_pc = "returned" /\ encontrados = <<>>
             /\ n_sondeos = 0 /\ n_close = 0))
    /\ [][(n_close' # n_close) =>
            (/\ n_close = 0 /\ n_close' = 1
             /\ cliente = "connected" /\ cliente' = "closed"
             /\ n_sondeos = LastSlave /\ direccion = LastSlave
             /\ mb_pc' = "returned")]_vars
    /\ []((script = "escaner" /\ mb_pc = "returned" /\ cliente # "failed")
            => (cliente = "closed" /\ n_close = 1))
    /\ []((script = "escaner" /\ mb_pc \in {"scan", "close"})
            => (cliente = "connected" /\ n_close = 0))

C35_Witness ==
    /\ script = "escaner" /\ mb_pc = "returned" /\ cliente = "closed"
    /\ n_close = 1 /\ ult_res = "Exception" /\ encontrados = <<100>>

====
